---------------------------- MODULE Spec2Model ----------------------------
(***************************************************************************)
(* A model of the v86 savestream codec (src/v86_savestreams/__init__.py).  *)
(*                                                                         *)
(* Bytes are naturals 0..255 and a byte string is a sequence of them; text *)
(* is the sequence of its ASCII codes.  The msgpack container is modelled  *)
(* by the document it carries (an ordered list of frames whose maps keep   *)
(* their keys and their insertion order); packb followed by unpackb is     *)
(* assumed to return that document.                                        *)
(***************************************************************************)
EXTENDS Integers, Sequences, FiniteSets, TLC

VARIABLES
    pc,                 \* position of the run
    block_size,         \* encode's block_size argument
    super_block_size,   \* encode's super_block_size argument
    xs,                 \* encode's v86state_array argument
    key_order,          \* the order in which this process iterates a set of keys
    known_blocks,       \* encode: block content -> id
    known_super_blocks, \* encode: super-block content -> id
    prev_info,          \* encode: info object of the previous savestate
    incremental_saves,  \* encode: frames emitted so far
    savestream,         \* the packed stream encode (or trim) returned
    dec,                \* decode: the running state of the frame loop
    decoded,            \* decode: the list it returned
    ret,                \* result of decode_one / decode_len / trim
    raw,                \* input of the savestate codec and of the aligner
    out                 \* outputs of the savestate codec and of the aligner

vars == <<pc, block_size, super_block_size, xs, key_order, known_blocks, known_super_blocks,
          prev_info, incremental_saves, savestream, dec, decoded, ret, raw, out>>

---------------------------------------------------------------------------
(* Bounds of the model.                                                    *)

MaxStates == 2      \* longest savestate sequence given to encode
MaxFill == 1        \* largest byte value written into a buffer
MaxInfo == 5        \* longest info block given to the savestate codec
MaxBuf == 2         \* longest buffer given to the savestate codec
MaxSubs == 2        \* most sub-buffers given to the aligner
MaxSubLen == 5      \* longest sub-buffer given to the aligner

---------------------------------------------------------------------------
(* Byte strings and Python's slices.                                       *)

\* With(v, LAMBDA x : e) is e with x bound to v: a local variable of the code.
With(v, F(_)) == F(v)

Min(a, b) == IF a < b THEN a ELSE b
Max(a, b) == IF a > b THEN a ELSE b

Zeros(n) == [i \in 1..n |-> 0]

\* Python's s[lo:hi]: negative indices count from the end, both are clamped.
Clamp(i, n) == IF i < 0 THEN Max(i + n, 0) ELSE Min(i, n)
Slice(s, lo, hi) == SubSeq(s, Clamp(lo, Len(s)) + 1, Clamp(hi, Len(s)))
SliceFrom(s, lo) == Slice(s, lo, Len(s))

\* x + 3 & ~3: Python parses it as (x + 3) & ~3, the next multiple of 4.
Align4(x) == ((x + 3) \div 4) * 4

RECURSIVE Concat(_)
Concat(ss) == IF ss = <<>> THEN <<>> ELSE Head(ss) \o Concat(Tail(ss))

RECURSIVE SumLen(_)
SumLen(ls) == IF ls = <<>> THEN 0 ELSE Head(ls) + SumLen(Tail(ls))

\* struct.pack('<I', n) and the int32 numpy reads back from four bytes.
LE32(n) == <<n % 256, (n \div 256) % 256, (n \div 65536) % 256, (n \div 16777216) % 256>>
Int32At(b, i) ==
    b[i] + 256 * b[i + 1] + 65536 * b[i + 2]
         + 16777216 * (IF b[i + 3] >= 128 THEN b[i + 3] - 256 ELSE b[i + 3])

---------------------------------------------------------------------------
(* The info block: UTF-8 JSON text.  The model covers the info objects of  *)
(* the test suite, {"buffer_infos": [{"offset": o, "length": l}, ...],     *)
(* "state_id": n}.  An info object is a record: keys is the insertion      *)
(* order of the dict, buffer_infos and state_id are the values.            *)

EmptyInfo == [keys |-> <<>>, buffer_infos |-> <<>>, state_id |-> 0]

\* Python's == on two dicts: the same keys with equal values, in any order.
JsonEq(a, b) ==
    /\ {a.keys[i] : i \in DOMAIN a.keys} = {b.keys[i] : i \in DOMAIN b.keys}
    /\ \A i \in DOMAIN a.keys :
          CASE a.keys[i] = "buffer_infos" -> a.buffer_infos = b.buffer_infos
            [] a.keys[i] = "state_id" -> a.state_id = b.state_id

KeyText(k) ==
    CASE k = "buffer_infos" -> <<98, 117, 102, 102, 101, 114, 95, 105, 110, 102, 111, 115>>
      [] k = "state_id" -> <<115, 116, 97, 116, 101, 95, 105, 100>>
      [] k = "offset" -> <<111, 102, 102, 115, 101, 116>>
      [] k = "length" -> <<108, 101, 110, 103, 116, 104>>

RECURSIVE Digits(_)
Digits(n) == IF n < 10 THEN <<48 + n>> ELSE Digits(n \div 10) \o <<48 + (n % 10)>>

Quote(s) == <<34>> \o s \o <<34>>

RECURSIVE Join(_, _)
Join(parts, sep) ==
    IF parts = <<>> THEN <<>>
    ELSE IF Len(parts) = 1 THEN parts[1]
    ELSE parts[1] \o sep \o Join(Tail(parts), sep)

\* json.dumps(obj, separators=(isep, ksep)) on an info object.
DumpRecord(r, isep, ksep) ==
    <<123>> \o Quote(KeyText("offset")) \o ksep \o Digits(r.offset) \o isep
            \o Quote(KeyText("length")) \o ksep \o Digits(r.length) \o <<125>>

DumpValue(info, k, isep, ksep) ==
    IF k = "buffer_infos"
    THEN <<91>> \o Join([i \in DOMAIN info.buffer_infos |->
                            DumpRecord(info.buffer_infos[i], isep, ksep)], isep) \o <<93>>
    ELSE Digits(info.state_id)

DumpsWith(info, isep, ksep) ==
    <<123>> \o Join([i \in DOMAIN info.keys |->
                        Quote(KeyText(info.keys[i])) \o ksep
                            \o DumpValue(info, info.keys[i], isep, ksep)], isep) \o <<125>>

\* json.dumps(obj): the default separators are ", " and ": ".
JsonDumps(info) == DumpsWith(info, <<44, 32>>, <<58, 32>>)

\* json.dumps(obj, separators=(",", ":")): the compact form.
CompactDumps(info) == DumpsWith(info, <<44>>, <<58>>)

\* json.loads: a parse result is [ok, v, p], p the position after the value.
Fail == [ok |-> FALSE, v |-> <<>>, p |-> 0]
Ch(t, p) == IF p >= 1 /\ p <= Len(t) THEN t[p] ELSE -1

RECURSIVE SkipWs(_, _)
SkipWs(t, p) == IF Ch(t, p) \in {32, 9, 10, 13} THEN SkipWs(t, p + 1) ELSE p

RECURSIVE ScanDigits(_, _, _)
ScanDigits(t, p, acc) ==
    IF Ch(t, p) \in 48..57 THEN ScanDigits(t, p + 1, 10 * acc + (t[p] - 48))
    ELSE [ok |-> TRUE, v |-> acc, p |-> p]
ParseInt(t, p) == IF Ch(t, p) \in 48..57 THEN ScanDigits(t, p, 0) ELSE Fail

RECURSIVE ScanString(_, _, _)
ScanString(t, p, acc) ==
    LET c == Ch(t, p) IN
    IF c = 34 THEN [ok |-> TRUE, v |-> acc, p |-> p + 1]
    ELSE IF c < 32 \/ c > 127 \/ c = 92 THEN Fail
    ELSE ScanString(t, p + 1, Append(acc, c))
ParseString(t, p) == IF Ch(t, p) = 34 THEN ScanString(t, p + 1, <<>>) ELSE Fail

\* One {"offset": o, "length": l} object; the members come in any order.
RECURSIVE ParseRecordMembers(_, _, _)
ParseRecordMembers(t, p, acc) ==
    With(ParseString(t, SkipWs(t, p)), LAMBDA k :
    IF ~k.ok \/ k.v \notin {KeyText("offset"), KeyText("length")}
             \/ Ch(t, SkipWs(t, k.p)) # 58 THEN Fail ELSE
    With(ParseInt(t, SkipWs(t, SkipWs(t, k.p) + 1)), LAMBDA n :
    IF ~n.ok THEN Fail ELSE
    With(SkipWs(t, n.p), LAMBDA r :
    With(IF k.v = KeyText("offset")
         THEN [acc EXCEPT !.offset = n.v, !.has = @ \cup {"offset"}]
         ELSE [acc EXCEPT !.length = n.v, !.has = @ \cup {"length"}], LAMBDA acc2 :
    IF Ch(t, r) = 44 THEN ParseRecordMembers(t, r + 1, acc2)
    ELSE IF Ch(t, r) = 125 /\ acc2.has = {"offset", "length"}
         THEN [ok |-> TRUE, v |-> [offset |-> acc2.offset, length |-> acc2.length], p |-> r + 1]
    ELSE Fail))))
ParseRecord(t, p) ==
    IF Ch(t, p) # 123 THEN Fail
    ELSE ParseRecordMembers(t, p + 1, [offset |-> 0, length |-> 0, has |-> {}])

RECURSIVE ParseElements(_, _, _)
ParseElements(t, p, acc) ==
    With(ParseRecord(t, SkipWs(t, p)), LAMBDA e :
    IF ~e.ok THEN Fail ELSE
    With(SkipWs(t, e.p), LAMBDA r :
    IF Ch(t, r) = 44 THEN ParseElements(t, r + 1, Append(acc, e.v))
    ELSE IF Ch(t, r) = 93 THEN [ok |-> TRUE, v |-> Append(acc, e.v), p |-> r + 1]
    ELSE Fail))
ParseArray(t, p) ==
    IF Ch(t, p) # 91 THEN Fail
    ELSE IF Ch(t, SkipWs(t, p + 1)) = 93 THEN [ok |-> TRUE, v |-> <<>>, p |-> SkipWs(t, p + 1) + 1]
    ELSE ParseElements(t, p + 1, <<>>)

\* The members of the info object, from position p; acc is the dict so far.
SetMember(acc, name, x) ==
    LET acc1 == IF \E i \in DOMAIN acc.keys : acc.keys[i] = name THEN acc
                ELSE [acc EXCEPT !.keys = Append(@, name)]
    IN  IF name = "buffer_infos" THEN [acc1 EXCEPT !.buffer_infos = x]
        ELSE [acc1 EXCEPT !.state_id = x]

RECURSIVE ParseMembers(_, _, _)
ParseMembers(t, p, acc) ==
    With(ParseString(t, SkipWs(t, p)), LAMBDA k :
    IF ~k.ok \/ k.v \notin {KeyText("buffer_infos"), KeyText("state_id")}
             \/ Ch(t, SkipWs(t, k.p)) # 58 THEN Fail ELSE
    With(IF k.v = KeyText("buffer_infos") THEN ParseArray(t, SkipWs(t, SkipWs(t, k.p) + 1))
         ELSE ParseInt(t, SkipWs(t, SkipWs(t, k.p) + 1)), LAMBDA x :
    IF ~x.ok THEN Fail ELSE
    With(SkipWs(t, x.p), LAMBDA r :
    With(SetMember(acc, IF k.v = KeyText("buffer_infos") THEN "buffer_infos" ELSE "state_id", x.v),
         LAMBDA acc2 :
    IF Ch(t, r) = 44 THEN ParseMembers(t, r + 1, acc2)
    ELSE IF Ch(t, r) = 125 THEN [ok |-> TRUE, v |-> acc2, p |-> r + 1]
    ELSE Fail))))

\* json.loads(text): [ok, v]; trailing bytes after the object are an error.
ParseObject(t, p) ==
    IF Ch(t, p) # 123 THEN Fail
    ELSE IF Ch(t, SkipWs(t, p + 1)) = 125
         THEN [ok |-> TRUE, v |-> EmptyInfo, p |-> SkipWs(t, p + 1) + 1]
    ELSE ParseMembers(t, p + 1, EmptyInfo)

JsonLoads(t) ==
    With(ParseObject(t, SkipWs(t, 1)), LAMBDA o :
    IF o.ok /\ SkipWs(t, o.p) = Len(t) + 1 THEN [ok |-> TRUE, v |-> o.v]
    ELSE [ok |-> FALSE, v |-> EmptyInfo])

---------------------------------------------------------------------------
(* The savestate codec and the buffer aligner.                             *)

\* _pad_to(buffer, length)
_pad_to(buffer, length) == buffer \o Zeros((length - Len(buffer)) % length)

\* _split_v86_savestate(buffer): numpy raises ValueError on a header whose
\* size is no multiple of 4 and IndexError on one with fewer than 4 words;
\* the slices never raise.
_split_v86_savestate(buffer) ==
    LET header_block == Slice(buffer, 0, 16) IN
    IF Len(header_block) % 4 # 0
    THEN [err |-> "ValueError", header |-> <<>>, info |-> <<>>, buffer |-> <<>>]
    ELSE IF Len(header_block) < 16
    THEN [err |-> "IndexError", header |-> <<>>, info |-> <<>>, buffer |-> <<>>]
    ELSE LET info_len == Int32At(header_block, 13)
             buffer_offset == Align4(16 + info_len)
         IN  [err |-> "none", header |-> header_block,
              info |-> Slice(buffer, 16, 16 + info_len),
              buffer |-> SliceFrom(buffer, buffer_offset)]

\* _recombine_v86_savestate((header_block, info_block, buffer_block))
RecombineNoPad(header_block, info_block, buffer_block) ==
    header_block \o info_block \o buffer_block
_recombine_v86_savestate(header_block, info_block, buffer_block) ==
    LET required_padding == Align4(Len(info_block)) - Len(info_block)
    IN  header_block \o (info_block \o Zeros(required_padding)) \o buffer_block

\* _make_aligned_buffer_block(info_block, buffer_block, block_size)
_make_aligned_buffer_block(info_block, buffer_block, bsz) ==
    With(JsonLoads(info_block), LAMBDA info :
    IF ~info.ok THEN [err |-> "ValueError", v |-> <<>>]
    ELSE [err |-> "none",
          v |-> Concat([i \in DOMAIN info.v.buffer_infos |->
                   LET offset == info.v.buffer_infos[i].offset
                       length == info.v.buffer_infos[i].length
                       padding == (bsz - (length % bsz)) % bsz
                   IN  Slice(buffer_block, offset, offset + length) \o Zeros(padding)])])

\* _make_unaligned_buffer_block(info_block, aligned_buffer_block, block_size):
\* the loop over buffer_infos, from entry i with the cursor at offset.
RECURSIVE UnalignFrom(_, _, _, _, _)
UnalignFrom(infos, i, offset, aligned, bsz) ==
    IF i > Len(infos) THEN <<>>
    ELSE LET length == infos[i].length
             padding_length == (bsz - (length % bsz)) % bsz
             raw_block == Slice(aligned, offset, Align4(offset + length))
         IN  raw_block \o UnalignFrom(infos, i + 1, offset + (length + padding_length), aligned, bsz)

_make_unaligned_buffer_block(info_block, aligned_buffer_block, bsz) ==
    With(JsonLoads(info_block), LAMBDA info :
    IF ~info.ok THEN [err |-> "ValueError", v |-> <<>>]
    ELSE [err |-> "none", v |-> UnalignFrom(info.v.buffer_infos, 1, 0, aligned_buffer_block, bsz)])

---------------------------------------------------------------------------
(* Savestates as the test suite builds them.                               *)

\* buffer_infos that tile a buffer: offset[i] is the sum of the lengths before.
RECURSIVE TileFrom(_, _)
TileFrom(lens, off) ==
    IF lens = <<>> THEN <<>>
    ELSE <<[offset |-> off, length |-> Head(lens)]>> \o TileFrom(Tail(lens), off + Head(lens))

MockInfo(state_id, lens) ==
    [keys |-> <<"buffer_infos", "state_id">>, buffer_infos |-> TileFrom(lens, 0),
     state_id |-> state_id]

\* create_mock_savestate: header, info text, NUL padding to 4 bytes, buffer.
SavestateOf(state_id, info_block, buffer_content) ==
    LET header_block == LE32(state_id) \o LE32(0) \o LE32(0) \o LE32(Len(info_block))
        padding == (4 - (Len(info_block) % 4)) % 4
    IN  header_block \o info_block \o Zeros(padding) \o buffer_content

---------------------------------------------------------------------------
(* Python dicts.  known_blocks and known_super_blocks are only looked up   *)
(* and sized, so they are functions from content to id.  The dicts of a    *)
(* frame are iterated, so they are sequences of <<key, value>> pairs in    *)
(* insertion order.  A key is an int or a byte string; the two never       *)
(* compare equal.                                                          *)

IntKey(n) == [int |-> n]
BytesKey(b) == [bytes |-> b]

DictHas(d, k) == \E i \in DOMAIN d : d[i][1] = k
DictGet(d, k) == d[CHOOSE i \in DOMAIN d : d[i][1] = k][2]
DictSet(d, k, v) ==
    IF DictHas(d, k) THEN [i \in DOMAIN d |-> IF d[i][1] = k THEN <<k, v>> ELSE d[i]]
    ELSE Append(d, <<k, v>>)
DictKeys(d) == {d[i][1] : i \in DOMAIN d}

RECURSIVE DictUpdate(_, _)
DictUpdate(d, e) == IF e = <<>> THEN d ELSE DictUpdate(DictSet(d, e[1][1], e[1][2]), Tail(e))

---------------------------------------------------------------------------
(* jsonpatch.  A patch is its list of operations on the top-level keys of  *)
(* the info object; the text of the patch (to_string, json.loads) carries  *)
(* exactly this list.  jsonpatch walks the added keys in set order, which  *)
(* Python does not fix: order is the order this run happens to use.        *)

PatchOp(kind, k, info) ==
    [op |-> kind, key |-> k, list |-> info.buffer_infos, num |-> info.state_id]

InfoHas(info, k) == \E i \in DOMAIN info.keys : info.keys[i] = k
SameValue(a, b, k) ==
    IF k = "buffer_infos" THEN a.buffer_infos = b.buffer_infos ELSE a.state_id = b.state_id

RECURSIVE Filter(_, _)
Filter(ks, keep) ==
    IF ks = <<>> THEN <<>>
    ELSE (IF Head(ks) \in keep THEN <<Head(ks)>> ELSE <<>>) \o Filter(Tail(ks), keep)

\* jsonpatch.make_patch(src, dst): removed keys, then added keys, then the
\* keys of both whose values differ.
make_patch(src, dst, order) ==
    LET srcKeys == {src.keys[i] : i \in DOMAIN src.keys}
        dstKeys == {dst.keys[i] : i \in DOMAIN dst.keys}
        removed == Filter(order, srcKeys \ dstKeys)
        added == Filter(order, dstKeys \ srcKeys)
        changed == Filter(order, {k \in srcKeys \cap dstKeys : ~SameValue(src, dst, k)})
    IN  [i \in DOMAIN removed |-> PatchOp("remove", removed[i], src)]
        \o [i \in DOMAIN added |-> PatchOp("add", added[i], dst)]
        \o [i \in DOMAIN changed |-> PatchOp("replace", changed[i], dst)]

\* jsonpatch.apply_patch(doc, patch): a new key goes to the end of the dict,
\* a replaced one keeps its place.
ApplyOp(doc, o) ==
    LET set == IF o.key = "buffer_infos" THEN [doc EXCEPT !.buffer_infos = o.list]
               ELSE [doc EXCEPT !.state_id = o.num]
    IN  IF o.op = "remove"
        THEN [doc EXCEPT !.keys = Filter(@, {k \in {"buffer_infos", "state_id"} : k # o.key})]
        ELSE IF InfoHas(doc, o.key) THEN set
        ELSE [set EXCEPT !.keys = Append(@, o.key)]

RECURSIVE apply_patch(_, _)
apply_patch(doc, patch) ==
    IF patch = <<>> THEN doc ELSE apply_patch(ApplyOp(doc, Head(patch)), Tail(patch))

KeyOrders == {<<"buffer_infos", "state_id">>, <<"state_id", "buffer_infos">>}

---------------------------------------------------------------------------
(* encode                                                                  *)

\* encode: the key under which a new super-block is stored in the frame.
SuperKey(sb, sid) == BytesKey(sb)

\* encode: super_block_size defaults to block_size * 256 (0 stands for None).
DefaultSuper(bsz, sbsz) == IF sbsz = 0 THEN bsz * 256 ELSE sbsz

\* [buf[i:i + size] for i in range(0, len(buf), size)]
RECURSIVE Chunks(_, _)
Chunks(buf, size) ==
    IF buf = <<>> THEN <<>> ELSE <<Slice(buf, 0, size)>> \o Chunks(SliceFrom(buf, size), size)

\* encode: `block not in known_blocks`, `sb not in known_super_blocks`.
KnownBlockNever(block, kb) == FALSE
KnownBlock(block, kb) == block \in DOMAIN kb
KnownSuperNever(sb, ksb) == FALSE
KnownSuper(sb, ksb) == sb \in DOMAIN ksb

\* encode: the loop that decomposes a new super-block into blocks, from byte
\* i of sb; st = [kb, nb, ids] are known_blocks, new_blocks and block_ids.
RECURSIVE InternBlocks(_, _, _, _)
InternBlocks(sb, i, st, bsz) ==
    IF i >= Len(sb) THEN st
    ELSE LET block == Slice(sb, i, i + bsz)
             known == KnownBlock(block, st.kb)
             bid == Cardinality(DOMAIN st.kb)
             kb2 == IF known THEN st.kb ELSE (block :> bid) @@ st.kb
             nb2 == IF known THEN st.nb ELSE DictSet(st.nb, IntKey(bid), block)
         IN  InternBlocks(sb, i + bsz, [kb |-> kb2, nb |-> nb2, ids |-> Append(st.ids, kb2[block])], bsz)

\* encode: the loop over the super-blocks of one savestate, from the j-th;
\* st = [kb, ksb, nb, nsb, seq].
RECURSIVE InternSupers(_, _, _, _)
InternSupers(sbs, j, st, bsz) ==
    IF j > Len(sbs) THEN st
    ELSE IF KnownSuper(sbs[j], st.ksb)
    THEN InternSupers(sbs, j + 1, [st EXCEPT !.seq = Append(@, st.ksb[sbs[j]])], bsz)
    ELSE With(Cardinality(DOMAIN st.ksb), LAMBDA sid :
         With(InternBlocks(sbs[j], 0, [kb |-> st.kb, nb |-> st.nb, ids |-> <<>>], bsz), LAMBDA blk :
         With((sbs[j] :> sid) @@ st.ksb, LAMBDA ksb2 :
         InternSupers(sbs, j + 1,
             [kb |-> blk.kb, ksb |-> ksb2, nb |-> blk.nb,
              nsb |-> DictSet(st.nsb, SuperKey(sbs[j], sid), blk.ids),
              seq |-> Append(st.seq, ksb2[sbs[j]])], bsz))))

\* encode: the size the aligned buffer is padded to before it is chunked.
PadUnit(bsz, sbsz) == bsz

\* encode: one pass of the loop over v86state_array.  e = [kb, ksb, prev_info]
\* is the state the loop carries; the result adds the frame, or the error.
EncodeSavestate(e, savestate, bsz, sbsz, order) ==
    With(_split_v86_savestate(savestate), LAMBDA sp :
    IF sp.err # "none" THEN [err |-> sp.err, e |-> e, frame |-> <<>>] ELSE
    With(_make_aligned_buffer_block(sp.info, sp.buffer, bsz), LAMBDA al :
    IF al.err # "none" THEN [err |-> al.err, e |-> e, frame |-> <<>>] ELSE
    With(_pad_to(al.v, PadUnit(bsz, sbsz)), LAMBDA aligned_buffer :
    With(Chunks(aligned_buffer, sbsz), LAMBDA super_blocks :
    With(InternSupers(super_blocks, 1,
             [kb |-> e.kb, ksb |-> e.ksb, nb |-> <<>>, nsb |-> <<>>, seq |-> <<>>], bsz), LAMBDA st :
    With(JsonLoads(sp.info).v, LAMBDA info_json :
        [err |-> "none",
         e |-> [kb |-> st.kb, ksb |-> st.ksb, prev_info |-> info_json],
         frame |-> [header_block |-> sp.header,
                    info_patch |-> make_patch(e.prev_info, info_json, order),
                    super_sequence |-> st.seq,
                    new_blocks |-> st.nb,
                    new_super_blocks |-> st.nsb]]))))))

\* encode: the state before the loop.
EncodeStartNoReserved(bsz, sbsz) ==
    [kb |-> <<>>, ksb |-> (Zeros(sbsz) :> 0), prev_info |-> EmptyInfo]
EncodeStart(bsz, sbsz) ==
    [kb |-> (Zeros(bsz) :> 0), ksb |-> (Zeros(sbsz) :> 0), prev_info |-> EmptyInfo]

\* encode(v86state_array, block_size, super_block_size) as a whole: the
\* frames, or the first error.
RECURSIVE EncodeFrom(_, _, _, _, _, _)
EncodeFrom(e, states, frames, bsz, sbsz, order) ==
    IF states = <<>> THEN [err |-> "none", frames |-> frames]
    ELSE With(EncodeSavestate(e, Head(states), bsz, sbsz, order), LAMBDA r :
         IF r.err # "none" THEN [err |-> r.err, frames |-> <<>>]
         ELSE EncodeFrom(r.e, Tail(states), Append(frames, r.frame), bsz, sbsz, order))

EncodeAll(states, bsz, sbsz, order) ==
    EncodeFrom(EncodeStart(bsz, DefaultSuper(bsz, sbsz)), states, <<>>,
               bsz, DefaultSuper(bsz, sbsz), order)

---------------------------------------------------------------------------
(* decode, decode_one, decode_len                                          *)

\* msgpack.packb(incremental_saves): an array header with the number of
\* frames, then the frames.  msgpack.unpackb reads that many back.
Pack(frames) == [count |-> Len(frames), items |-> frames]
Unpack(stream) == SubSeq(stream.items, 1, stream.count)

\* decode: block_size is the length of the first block of the first frame
\* that has new blocks, else 256.
RECURSIVE FirstBlockLen(_)
FirstBlockLen(frames) ==
    IF frames = <<>> THEN 256
    ELSE IF Head(frames).new_blocks # <<>> THEN Len(Head(frames).new_blocks[1][2])
    ELSE FirstBlockLen(Tail(frames))

\* decode: super_block_size is the number of block ids of the first
\* super-block of the first frame that has new super-blocks, times
\* block_size, else block_size * 256.
RECURSIVE FirstSuperLen(_, _)
FirstSuperLen(frames, bsz) ==
    IF frames = <<>> THEN bsz * 256
    ELSE IF Head(frames).new_super_blocks # <<>>
         THEN Len(Head(frames).new_super_blocks[1][2]) * bsz
    ELSE FirstSuperLen(Tail(frames), bsz)

\* decode: the state before the loop over the frames.  blocks_dict and
\* super_blocks_dict start as {0: b'\x00' * block_size} and
\* {0: b'\x00' * super_block_size}; the model keeps that reserved entry
\* implicit (it is read by ZeroEntry) until a frame overwrites key 0, and
\* the two fields hold the entries the frames added.
DecodeStart(frames) ==
    LET bsz == FirstBlockLen(frames)
        sbsz == FirstSuperLen(frames, bsz)
    IN  [block_size |-> bsz, super_block_size |-> sbsz,
         blocks_dict |-> <<>>, super_blocks_dict |-> <<>>,
         current_info |-> EmptyInfo, info_block |-> <<>>, files |-> <<>>, err |-> "none"]

ZeroEntry(size) == Zeros(size)

\* d[id] on a dict whose reserved entry has `size` bytes.
Lookup(d, id, size) ==
    IF DictHas(d, IntKey(id)) THEN [ok |-> TRUE, v |-> DictGet(d, IntKey(id))]
    ELSE IF id = 0 THEN [ok |-> TRUE, v |-> ZeroEntry(size)]
    ELSE [ok |-> FALSE, v |-> <<>>]

\* b''.join([d[id] for id in ids]): [ok, v], not ok on a KeyError.
RECURSIVE JoinLookup(_, _, _)
JoinLookup(d, ids, size) ==
    IF ids = <<>> THEN [ok |-> TRUE, v |-> <<>>]
    ELSE With(Lookup(d, Head(ids), size), LAMBDA x :
         IF ~x.ok THEN x
         ELSE With(JoinLookup(d, Tail(ids), size), LAMBDA rest :
              IF ~rest.ok THEN rest ELSE [ok |-> TRUE, v |-> x.v \o rest.v]))

\* decode: the loop that rebuilds the new super-blocks of a frame: [ok, v].
RECURSIVE RebuildSupers(_, _, _, _)
RebuildSupers(sbd, bd, nsb, bsz) ==
    IF nsb = <<>> THEN [ok |-> TRUE, v |-> sbd]
    ELSE With(JoinLookup(bd, nsb[1][2], bsz), LAMBDA data :
         IF ~data.ok THEN [ok |-> FALSE, v |-> sbd]
         ELSE RebuildSupers(DictSet(sbd, nsb[1][1], data.v), bd, Tail(nsb), bsz))

\* json.dumps as decode and decode_one call it.
DecodeDumps(info) == JsonDumps(info)

\* decode: one pass of the loop over the frames.
DecodeFrame(d, frame) ==
    With(DictUpdate(d.blocks_dict, frame.new_blocks), LAMBDA blocks_dict :
    With(RebuildSupers(d.super_blocks_dict, blocks_dict, frame.new_super_blocks, d.block_size),
         LAMBDA supers :
    IF ~supers.ok THEN [d EXCEPT !.err = "KeyError"] ELSE
    With(JoinLookup(supers.v, frame.super_sequence, d.super_block_size), LAMBDA aligned :
    IF ~aligned.ok THEN [d EXCEPT !.err = "KeyError"] ELSE
    With(apply_patch(d.current_info, frame.info_patch), LAMBDA current_info :
    With(DecodeDumps(current_info), LAMBDA info_block :
    With(_make_unaligned_buffer_block(info_block, aligned.v, d.block_size), LAMBDA buffer_block :
    IF buffer_block.err # "none" THEN [d EXCEPT !.err = buffer_block.err]
    ELSE [d EXCEPT !.blocks_dict = blocks_dict,
                   !.super_blocks_dict = supers.v,
                   !.current_info = current_info,
                   !.info_block = info_block,
                   !.files = Append(@, _recombine_v86_savestate(
                                           frame.header_block, info_block, buffer_block.v))]))))))

\* decode(savestream_bytes) as a whole: [err, files].
RECURSIVE DecodeFrom(_, _)
DecodeFrom(d, frames) ==
    IF frames = <<>> \/ d.err # "none" THEN d ELSE DecodeFrom(DecodeFrame(d, Head(frames)), Tail(frames))
DecodeAll(stream) == DecodeFrom(DecodeStart(Unpack(stream)), Unpack(stream))

\* decode_one: one pass of its loop over incremental_saves[:index + 1]; only
\* the pass with i = index unaligns and recombines.
OneFrame(d, frame, last) ==
    With(DictUpdate(d.blocks_dict, frame.new_blocks), LAMBDA blocks_dict :
    With(RebuildSupers(d.super_blocks_dict, blocks_dict, frame.new_super_blocks, d.block_size),
         LAMBDA supers :
    IF ~supers.ok THEN [d EXCEPT !.err = "KeyError"] ELSE
    With(JoinLookup(supers.v, frame.super_sequence, d.super_block_size), LAMBDA aligned :
    IF ~aligned.ok THEN [d EXCEPT !.err = "KeyError"] ELSE
    With(apply_patch(d.current_info, frame.info_patch), LAMBDA current_info :
    With(DecodeDumps(current_info), LAMBDA info_block :
    IF ~last
    THEN [d EXCEPT !.blocks_dict = blocks_dict, !.super_blocks_dict = supers.v,
                   !.current_info = current_info, !.info_block = info_block]
    ELSE
    With(_make_unaligned_buffer_block(info_block, aligned.v, d.block_size), LAMBDA buffer_block :
    IF buffer_block.err # "none" THEN [d EXCEPT !.err = buffer_block.err]
    ELSE [d EXCEPT !.blocks_dict = blocks_dict,
                   !.super_blocks_dict = supers.v,
                   !.current_info = current_info,
                   !.info_block = info_block,
                   !.files = <<_recombine_v86_savestate(
                                   frame.header_block, info_block, buffer_block.v)>>]))))))

\* decode_one: its loop over enumerate(frames), from pass i; it returns in
\* the pass with i = index.
OneFromLast(d, frames, i, index) ==
    IF index >= Len(frames) THEN d ELSE OneFrame(d, frames[index + 1], TRUE)
RECURSIVE OneFrom(_, _, _, _)
OneFrom(d, frames, i, index) ==
    IF i >= Len(frames) \/ d.err # "none" \/ d.files # <<>> THEN d
    ELSE OneFrom(OneFrame(d, frames[i + 1], i = index), frames, i + 1, index)

\* decode_one: the range check on index.
IndexAboveRange(frames, index) == index >= Len(frames)
IndexOutOfRange(frames, index) == index < 0 \/ index >= Len(frames)

\* decode_one(savestream_bytes, index): [err, v].
decode_one(stream, index) ==
    IF IndexOutOfRange(Unpack(stream), index) THEN [err |-> "IndexError", v |-> <<>>]
    ELSE With(OneFrom(DecodeStart(Unpack(stream)), Slice(Unpack(stream), 0, index + 1), 0, index),
              LAMBDA d :
         IF d.err # "none" THEN [err |-> d.err, v |-> <<>>]
         ELSE IF d.files = <<>> THEN [err |-> "RuntimeError", v |-> <<>>]
         ELSE [err |-> "none", v |-> d.files[1]])

\* decode_len(savestream_bytes)
DecodeLenLastIndex(stream) == Len(Unpack(stream)) - 1
decode_len(stream) == Len(Unpack(stream))

---------------------------------------------------------------------------
(* trim(stream, start, end): not part of the source; it decodes, keeps the *)
(* savestates start..end (inclusive) and encodes them again with the       *)
(* format's default sizes.                                                 *)

\* trim: the savestates start..end of the stream: [err, files].
TrimSelect(stream, start, end) ==
    IF start < 0 \/ start > end \/ start >= decode_len(stream)
    THEN [err |-> "InvalidRange", files |-> <<>>]
    ELSE With(DecodeAll(stream), LAMBDA d :
         IF d.err # "none" THEN [err |-> d.err, files |-> <<>>]
         ELSE [err |-> "none", files |-> SubSeq(d.files, start + 1, Min(end + 1, Len(d.files)))])

\* trim: the stream of the selected savestates: [err, stream].
TrimEncode(files, order) ==
    With(EncodeAll(files, 256, 0, order), LAMBDA r : [err |-> r.err, stream |-> Pack(r.frames)])

---------------------------------------------------------------------------
(* The inputs of a run.                                                    *)

BlockSizes == {2, 4}
SuperSizes(bsz) == IF bsz = 4 THEN {0} ELSE {bsz, 2 * bsz}  \* 0: left out
Styles == {"default", "compact"}

\* A savestate is built from its state id, the lengths of its sub-buffers
\* and the buffer content.
Shape(id, lens, content) == [id |-> id, lens |-> lens, content |-> content]
Shapes ==
    { Shape(0, <<>>, <<>>),
      Shape(0, <<4>>, <<0, 0, 0, 0>>),
      Shape(0, <<4>>, <<MaxFill, 0, 0, 0>>),
      Shape(1, <<4>>, <<0, 0, 0, MaxFill>>),
      Shape(0, <<2>>, <<0, 0>>) }

InfoText(info, style) == IF style = "compact" THEN CompactDumps(info) ELSE JsonDumps(info)
Mock(sh, style) == SavestateOf(sh.id, InfoText(MockInfo(sh.id, sh.lens), style), sh.content)

Inputs ==
    UNION { { [k \in 1..n |-> Mock(c[k], style)] : c \in [1..n -> Shapes] } :
            n \in 0..MaxStates, style \in Styles }

NoDec == DecodeStart(<<>>)
NoRet == [op |-> "none", a |-> 0, b |-> 0, err |-> "none", v |-> <<>>]
NoOut == [split |-> _split_v86_savestate(<<>>), bytes |-> <<>>, aligned |-> <<>>]

---------------------------------------------------------------------------
(* The run: encode(xs, block_size, super_block_size), then one of decode,  *)
(* decode_one, decode_len and trim on the stream it returned.              *)

Init ==
    /\ pc = "start"
    /\ block_size \in BlockSizes
    /\ super_block_size \in SuperSizes(block_size)
    /\ xs \in Inputs
    /\ key_order \in KeyOrders
    /\ known_blocks = <<>>
    /\ known_super_blocks = <<>>
    /\ prev_info = EmptyInfo
    /\ incremental_saves = <<>>
    /\ savestream = Pack(<<>>)
    /\ dec = NoDec
    /\ decoded = <<>>
    /\ ret = NoRet
    /\ raw = <<>>
    /\ out = NoOut

\* encode, lines 132-139: the defaults and the empty dictionaries.
EncodeBegin ==
    /\ pc = "start"
    /\ \E e \in {EncodeStart(block_size, DefaultSuper(block_size, super_block_size))} :
       /\ super_block_size' = DefaultSuper(block_size, super_block_size)
       /\ known_blocks' = e.kb
       /\ known_super_blocks' = e.ksb
       /\ prev_info' = e.prev_info
    /\ incremental_saves' = <<>>
    /\ pc' = "encode"
    /\ UNCHANGED <<block_size, xs, key_order, savestream, dec, decoded, ret, raw, out>>

\* encode, lines 141-183: the loop body, for the next savestate.
EncodeStep ==
    /\ pc = "encode"
    /\ Len(incremental_saves) < Len(xs)
    /\ \E r \in {EncodeSavestate(
                      [kb |-> known_blocks, ksb |-> known_super_blocks, prev_info |-> prev_info],
                      xs[Len(incremental_saves) + 1], block_size, super_block_size, key_order)} :
             IF r.err # "none"
             THEN /\ pc' = "encode_error"
                  /\ UNCHANGED <<known_blocks, known_super_blocks, prev_info, incremental_saves>>
             ELSE /\ pc' = "encode"
                  /\ known_blocks' = r.e.kb
                  /\ known_super_blocks' = r.e.ksb
                  /\ prev_info' = r.e.prev_info
                  /\ incremental_saves' = Append(incremental_saves, r.frame)
    /\ UNCHANGED <<block_size, super_block_size, xs, key_order, savestream, dec, decoded, ret, raw, out>>

\* encode, line 186: pack the frames and return.
EncodeReturn ==
    /\ pc = "encode"
    /\ Len(incremental_saves) = Len(xs)
    /\ savestream' = Pack(incremental_saves)
    /\ pc' = "packed"
    /\ UNCHANGED <<block_size, super_block_size, xs, key_order, known_blocks, known_super_blocks,
                   prev_info, incremental_saves, dec, decoded, ret, raw, out>>

\* decode, lines 200-232: unpack, derive the sizes, the empty dictionaries.
DecodeBegin ==
    /\ pc \in {"packed", "trimmed"}
    /\ dec' = DecodeStart(Unpack(savestream))
    /\ pc' = "decode"
    /\ UNCHANGED <<block_size, super_block_size, xs, key_order, known_blocks, known_super_blocks,
                   prev_info, incremental_saves, savestream, decoded, ret, raw, out>>

\* decode, lines 234-262: the loop body, for the next frame.
DecodeStepYield ==
    /\ pc = "decode"
    /\ Len(dec.files) < decode_len(savestream)
    /\ dec' = DecodeFrame(dec, Unpack(savestream)[Len(dec.files) + 1])
    /\ pc' = IF dec'.err # "none" THEN "decode_error" ELSE "decode"
    /\ decoded' = dec'.files
    /\ UNCHANGED <<block_size, super_block_size, xs, key_order, known_blocks, known_super_blocks,
                   prev_info, incremental_saves, savestream, ret, raw, out>>
DecodeStep ==
    /\ pc = "decode"
    /\ Len(dec.files) < decode_len(savestream)
    /\ dec' = DecodeFrame(dec, Unpack(savestream)[Len(dec.files) + 1])
    /\ pc' = IF dec'.err # "none" THEN "decode_error" ELSE "decode"
    /\ UNCHANGED <<block_size, super_block_size, xs, key_order, known_blocks, known_super_blocks,
                   prev_info, incremental_saves, savestream, decoded, ret, raw, out>>

\* decode, line 264: return the list.
DecodeReturn ==
    /\ pc = "decode"
    /\ Len(dec.files) = decode_len(savestream)
    /\ decoded' = dec.files
    /\ pc' = "decoded"
    /\ UNCHANGED <<block_size, super_block_size, xs, key_order, known_blocks, known_super_blocks,
                   prev_info, incremental_saves, savestream, dec, ret, raw, out>>

\* decode_one(savestream, index)
DecodeOne ==
    /\ pc = "packed"
    /\ \E index \in -1..MaxStates :
         \E r \in {decode_one(savestream, index)} :
             ret' = [op |-> "decode_one", a |-> index, b |-> 0, err |-> r.err, v |-> r.v]
    /\ pc' = "returned"
    /\ UNCHANGED <<block_size, super_block_size, xs, key_order, known_blocks, known_super_blocks,
                   prev_info, incremental_saves, savestream, dec, decoded, raw, out>>

\* decode_len(savestream)
DecodeLen ==
    /\ pc = "packed"
    /\ ret' = [op |-> "decode_len", a |-> decode_len(savestream), b |-> 0, err |-> "none", v |-> <<>>]
    /\ pc' = "returned"
    /\ UNCHANGED <<block_size, super_block_size, xs, key_order, known_blocks, known_super_blocks,
                   prev_info, incremental_saves, savestream, dec, decoded, raw, out>>

\* trim(savestream, start, end)
Trim ==
    /\ pc = "packed"
    /\ \E start \in -1..(MaxStates - 1), end \in 0..(MaxStates - 1) :
         \E sel \in {TrimSelect(savestream, start, end)} :
             IF sel.err # "none"
             THEN /\ ret' = [op |-> "trim", a |-> start, b |-> end, err |-> sel.err, v |-> <<>>]
                  /\ pc' = "trim_error"
                  /\ UNCHANGED savestream
             ELSE \E r \in {TrimEncode(sel.files, key_order)} :
                      /\ ret' = [op |-> "trim", a |-> start, b |-> end, err |-> r.err, v |-> <<>>]
                      /\ savestream' = r.stream
                      /\ pc' = IF r.err # "none" THEN "trim_error" ELSE "trimmed"
    /\ UNCHANGED <<block_size, super_block_size, xs, key_order, known_blocks, known_super_blocks,
                   prev_info, incremental_saves, dec, decoded, raw, out>>

Next ==
    \/ EncodeBegin
    \/ EncodeStep
    \/ EncodeReturn
    \/ DecodeBegin
    \/ DecodeStep
    \/ DecodeReturn
    \/ DecodeOne
    \/ DecodeLen
    \/ Trim

Spec == Init /\ [][Next]_vars

---------------------------------------------------------------------------
(* The savestate codec on its own: split then recombine a byte string, and *)
(* recombine then split a (header, info, buffer) triple.                   *)

HeaderOf(state_id, info_len) == LE32(state_id) \o LE32(0) \o LE32(0) \o LE32(info_len)
InfoBytes(n) == [i \in 1..n |-> 96 + i]
BufBytes(m, fill) == [i \in 1..m |-> fill]

Parts == { [header |-> HeaderOf(id, n), info |-> InfoBytes(n), buffer |-> BufBytes(m, fill)] :
             id \in 0..1, n \in 0..MaxInfo, m \in 0..MaxBuf, fill \in 0..MaxFill }

\* Byte strings given to split: savestates laid out as the format says,
\* their prefixes, and headers whose info length is negative or too large.
Savestates == { SavestateOf(id, InfoBytes(n), BufBytes(m, fill)) :
                  id \in 0..1, n \in 0..MaxInfo, m \in 0..MaxBuf, fill \in 0..MaxFill }
Truncated == { Slice(SavestateOf(1, InfoBytes(MaxInfo), <<>>), 0, k) : k \in 0..15 }
NegativeLength == { HeaderOf(0, 0 - d) \o InfoBytes(n) : d \in 1..MaxInfo, n \in 0..MaxInfo }
Overlong == { HeaderOf(0, n + d) \o InfoBytes(n) : d \in 1..MaxInfo, n \in 0..MaxInfo }

NoParts == [header |-> <<>>, info |-> <<>>, buffer |-> <<>>]
RawBytes(b) == [kind |-> "bytes", bytes |-> b, parts |-> NoParts]
RawParts(t) == [kind |-> "parts", bytes |-> <<>>, parts |-> t]

InitSplit ==
    /\ pc = "codec"
    /\ raw \in { RawBytes(b) : b \in Savestates \cup Truncated \cup NegativeLength \cup Overlong }
               \cup { RawParts(t) : t \in Parts }
    /\ out = NoOut
    /\ block_size = 4
    /\ super_block_size = 4
    /\ xs = <<>>
    /\ key_order = <<"buffer_infos", "state_id">>
    /\ known_blocks = <<>>
    /\ known_super_blocks = <<>>
    /\ prev_info = EmptyInfo
    /\ incremental_saves = <<>>
    /\ savestream = Pack(<<>>)
    /\ dec = NoDec
    /\ decoded = <<>>
    /\ ret = NoRet

Idle == <<block_size, super_block_size, xs, key_order, known_blocks, known_super_blocks,
          prev_info, incremental_saves, savestream, dec, decoded, ret>>

\* _split_v86_savestate(raw.bytes)
SplitSavestate ==
    /\ pc = "codec"
    /\ raw.kind = "bytes"
    /\ out' = [out EXCEPT !.split = _split_v86_savestate(raw.bytes)]
    /\ pc' = IF out'.split.err # "none" THEN "split_error" ELSE "split"
    /\ UNCHANGED <<raw, Idle>>

\* _recombine_v86_savestate of the triple split returned
RecombineSplit ==
    /\ pc = "split"
    /\ out' = [out EXCEPT !.bytes = _recombine_v86_savestate(
                                        out.split.header, out.split.info, out.split.buffer)]
    /\ pc' = "recombined"
    /\ UNCHANGED <<raw, Idle>>

\* _recombine_v86_savestate(raw.parts)
RecombineParts ==
    /\ pc = "codec"
    /\ raw.kind = "parts"
    /\ out' = [out EXCEPT !.bytes = _recombine_v86_savestate(
                                        raw.parts.header, raw.parts.info, raw.parts.buffer)]
    /\ pc' = "joined"
    /\ UNCHANGED <<raw, Idle>>

\* _split_v86_savestate of the bytes recombine returned
SplitRecombined ==
    /\ pc = "joined"
    /\ out' = [out EXCEPT !.split = _split_v86_savestate(out.bytes)]
    /\ pc' = IF out'.split.err # "none" THEN "split_error" ELSE "resplit"
    /\ UNCHANGED <<raw, Idle>>

NextSplit ==
    \/ SplitSavestate
    \/ RecombineSplit
    \/ RecombineParts
    \/ SplitRecombined

SpecSplit == InitSplit /\ [][NextSplit]_vars

---------------------------------------------------------------------------
(* The aligner on its own: align a buffer, then unalign the result.        *)

AlignBlockSizes == {1, 2, 3, 4, 8}

RECURSIVE SubLens(_)
SubLens(n) ==
    IF n = 0 THEN {<<>>}
    ELSE SubLens(n - 1) \cup { Append(l, k) : l \in SubLens(n - 1), k \in 0..MaxSubLen }

\* The buffer's bytes are 1, 2, 3, ...: no two neighbours are alike.
Numbered(n) == [i \in 1..n |-> i]

InitAlign ==
    /\ pc = "aligner"
    /\ \E lens \in SubLens(MaxSubs), bsz \in AlignBlockSizes :
          /\ raw = [info |-> JsonDumps(MockInfo(0, lens)), buffer |-> Numbered(SumLen(lens))]
          /\ block_size = bsz
    /\ out = NoOut
    /\ super_block_size = block_size
    /\ xs = <<>>
    /\ key_order = <<"buffer_infos", "state_id">>
    /\ known_blocks = <<>>
    /\ known_super_blocks = <<>>
    /\ prev_info = EmptyInfo
    /\ incremental_saves = <<>>
    /\ savestream = Pack(<<>>)
    /\ dec = NoDec
    /\ decoded = <<>>
    /\ ret = NoRet

\* _make_aligned_buffer_block(raw.info, raw.buffer, block_size)
Align ==
    /\ pc = "aligner"
    /\ out' = [out EXCEPT !.aligned = _make_aligned_buffer_block(raw.info, raw.buffer, block_size).v]
    /\ pc' = "aligned"
    /\ UNCHANGED <<raw, Idle>>

\* _make_unaligned_buffer_block(raw.info, the aligned buffer, block_size)
Unalign ==
    /\ pc = "aligned"
    /\ out' = [out EXCEPT !.bytes = _make_unaligned_buffer_block(raw.info, out.aligned, block_size).v]
    /\ pc' = "unaligned"
    /\ UNCHANGED <<raw, Idle>>

NextAlign ==
    \/ Align
    \/ Unalign

SpecAlign == InitAlign /\ [][NextAlign]_vars

---------------------------------------------------------------------------
(* Properties of the run of Spec.  ret.op = "none" tells the decode of the *)
(* stream encode returned from the decode of a trimmed stream.             *)

\* Each decoded savestate splits into the same header, a JSON-equal info
\* object and the same buffer as the original.
SameComponents(a, b) ==
    LET sa == _split_v86_savestate(a)
        sb == _split_v86_savestate(b)
    IN  /\ sa.err = "none" /\ sb.err = "none"
        /\ sa.header = sb.header
        /\ JsonLoads(sa.info).ok /\ JsonLoads(sb.info).ok
        /\ JsonEq(JsonLoads(sa.info).v, JsonLoads(sb.info).v)
        /\ sa.buffer = sb.buffer

\* C1: decode(encode(xs)) succeeds and returns xs, byte for byte and in
\* order, for every sequence xs of well-formed savestates.
C1_DecodeEncodeRoundTrip ==
    ret.op = "none" =>
        /\ pc \notin {"encode_error", "decode_error"}
        /\ pc = "decoded" => decoded = xs

\* C2: decode_one(encode(xs), i) succeeds and returns xs[i] for every
\* index i with 0 <= i < len(xs).
C2_DecodeOneReturnsElement ==
    (ret.op = "decode_one" /\ 0 <= ret.a /\ ret.a < Len(xs)) =>
        /\ ret.err = "none"
        /\ ret.v = xs[ret.a + 1]

\* C3: for every block size B and every super-block size S that is a
\* multiple of B, decode(encode(xs, B, S)) returns len(xs) savestates, each
\* with the header, a JSON-equal info object and the buffer of the original.
C3_RoundTripForEverySize ==
    ret.op = "none" =>
        /\ pc \notin {"encode_error", "decode_error"}
        /\ pc = "decoded" =>
              /\ Len(decoded) = Len(xs)
              /\ \A k \in 1..Len(xs) : SameComponents(decoded[k], xs[k])

\* C4: decode_len(encode(xs)) = len(xs) for every xs; encode([]) is a
\* stream of zero frames, and decode of it returns the empty sequence.
C4_DecodeLenIsLength ==
    /\ ret.op = "decode_len" => ret.a = Len(xs)
    /\ (pc = "packed" /\ xs = <<>>) => Unpack(savestream) = <<>>
    /\ (pc = "decoded" /\ ret.op = "none" /\ xs = <<>>) => decoded = <<>>

C4_Witness == ret.op = "decode_len" /\ ret.a = MaxStates /\ Len(xs) = MaxStates

\* C5: decode_one(stream, i) ends in IndexError and returns no savestate
\* whenever i < 0 or i >= n, n the number of frames; with n = 0 every index
\* is rejected.
C5_DecodeOneOutOfRange ==
    (ret.op = "decode_one" /\ (ret.a < 0 \/ ret.a >= savestream.count)) =>
        /\ ret.err = "IndexError"
        /\ ret.v = <<>>

C5_Witness ==
    /\ ret.op = "decode_one" /\ ret.a < 0
    /\ savestream.count > 0
    /\ ret.err = "IndexError"

\* C6: trim(encode(xs), s, e) with 0 <= s <= e < len(xs) succeeds, and
\* decode of its result is xs[s], ..., xs[e], in order.
C6_TrimDecodesToSlice ==
    (ret.op = "trim" /\ 0 <= ret.a /\ ret.a <= ret.b /\ ret.b < Len(xs)) =>
        /\ pc \notin {"trim_error", "decode_error"}
        /\ pc = "decoded" => decoded = SubSeq(xs, ret.a + 1, ret.b + 1)

\* C10: after frame k, every super-block id in super_sequence of frame k is
\* 0 or a key of new_super_blocks of a frame j <= k, and every block id in
\* a new_super_blocks entry of frame k is 0 or a key of new_blocks of a
\* frame j <= k.
C10_IdsAreDefined ==
    \A k \in DOMAIN incremental_saves :
        /\ \A i \in DOMAIN incremental_saves[k].super_sequence :
              LET sid == incremental_saves[k].super_sequence[i]
              IN  \/ sid = 0
                  \/ \E j \in 1..k :
                        DictHas(incremental_saves[j].new_super_blocks, IntKey(sid))
        /\ \A e \in DOMAIN incremental_saves[k].new_super_blocks :
              LET block_ids == incremental_saves[k].new_super_blocks[e][2]
              IN  \A i \in DOMAIN block_ids :
                     \/ block_ids[i] = 0
                     \/ \E j \in 1..k :
                           DictHas(incremental_saves[j].new_blocks, IntKey(block_ids[i]))

---------------------------------------------------------------------------
(* Properties of the aligner (SpecAlign) and of the savestate codec        *)
(* (SpecSplit).                                                            *)

\* C7: unalign(info, align(info, buffer, B), B) = buffer for every block
\* size B and every buffer its buffer_infos tile without gaps, whatever the
\* lengths are modulo 4 or modulo B.
C7_UnalignInvertsAlign ==
    pc = "unaligned" => out.bytes = raw.buffer

\* The layout of a savestate: a 16-byte header whose last word is the info
\* length L >= 0, L bytes of info, NUL bytes up to the next multiple of 4,
\* then the buffer.
InfoLength(x) == Int32At(x, 13)
WellFormed(x) ==
    /\ Len(x) >= 16
    /\ InfoLength(x) >= 0
    /\ Len(x) >= Align4(16 + InfoLength(x))
    /\ \A i \in (16 + InfoLength(x) + 1)..Align4(16 + InfoLength(x)) : x[i] = 0
Malformed(x) ==
    \/ Len(x) < 16
    \/ InfoLength(x) < 0
    \/ 16 + InfoLength(x) > Len(x)

\* C8: recombine(split(x)) = x for every well-formed savestate x, and
\* split(recombine((h, info, buf))) = (h, info, buf) whenever h encodes
\* L = len(info).
C8_SplitRecombineInverse ==
    /\ (pc = "recombined" /\ WellFormed(raw.bytes)) => out.bytes = raw.bytes
    /\ (raw.kind = "parts" /\ pc \notin {"codec", "joined"}) =>
          /\ pc = "resplit"
          /\ out.split.header = raw.parts.header
          /\ out.split.info = raw.parts.info
          /\ out.split.buffer = raw.parts.buffer

C8_Witness ==
    /\ pc = "recombined"
    /\ WellFormed(raw.bytes)
    /\ Len(out.split.info) % 4 # 0
    /\ out.split.buffer # <<>>
    /\ out.bytes = raw.bytes

\* C9: split(savestate) ends in an error and returns no triple whenever the
\* savestate is shorter than 16 bytes, or its info length L is negative, or
\* 16 + L exceeds its length.
C9_SplitRejectsMalformed ==
    (raw.kind = "bytes" /\ pc # "codec" /\ Malformed(raw.bytes)) =>
        /\ pc = "split_error"
        /\ out.split.err # "none"

---------------------------------------------------------------------------
(* Properties of the frames encode has written so far (Spec).  Frames are   *)
(* written in encode's loop only (pc = "encode") and never change after.   *)

\* The keys of a dict of frame k, in insertion order, and those of all the
\* frames, frame after frame.
KeysOf(d) == [i \in DOMAIN d |-> d[i][1]]
ValuesOf(d) == {d[i][2] : i \in DOMAIN d}
SuperBlockKeys == Concat([k \in DOMAIN incremental_saves |->
                             KeysOf(incremental_saves[k].new_super_blocks)])
BlockKeys == Concat([k \in DOMAIN incremental_saves |->
                        KeysOf(incremental_saves[k].new_blocks)])

\* C11: the keys of new_super_blocks, over all frames, are exactly the
\* integers 1..K: ids, never 0, without gaps, none in two frames.
C11_SuperBlockIdsDense ==
    /\ \A n \in 1..Len(SuperBlockKeys) :
          \E i \in DOMAIN SuperBlockKeys : SuperBlockKeys[i] = IntKey(n)
    /\ \A i \in DOMAIN SuperBlockKeys :
          \E n \in 1..Len(SuperBlockKeys) : SuperBlockKeys[i] = IntKey(n)

\* C12: the keys of new_blocks, over all frames, are exactly the integers
\* 1..K, given out in the order the contents are first seen: never 0,
\* without gaps, none in two frames.
C12_BlockIdsDense ==
    pc = "encode" => \A i \in DOMAIN BlockKeys : BlockKeys[i] = IntKey(i)

C12_Witness ==
    /\ Len(incremental_saves) >= 2
    /\ incremental_saves[1].new_blocks # <<>>
    /\ incremental_saves[2].new_blocks # <<>>

\* C13: when savestate k equals an earlier savestate j, frame k has no new
\* blocks and no new super-blocks, and its super_sequence is that of frame j.
C13_RepeatedSavestateAddsNothing ==
    pc = "encode" => \A k \in DOMAIN incremental_saves : \A j \in 1..(k - 1) :
        xs[j] = xs[k] =>
            /\ incremental_saves[k].new_blocks = <<>>
            /\ incremental_saves[k].new_super_blocks = <<>>
            /\ incremental_saves[k].super_sequence = incremental_saves[j].super_sequence

C13_Witness ==
    /\ Len(incremental_saves) >= 2
    /\ xs[1] = xs[2]
    /\ incremental_saves[1].new_super_blocks # <<>>
    /\ incremental_saves[2].super_sequence = incremental_saves[1].super_sequence

\* The aligned buffer of a savestate, and the blocks of its padded form.
AlignedOf(x) ==
    _make_aligned_buffer_block(_split_v86_savestate(x).info, _split_v86_savestate(x).buffer,
                               block_size).v
BlocksOf(x) ==
    LET padded == _pad_to(AlignedOf(x), block_size)
    IN  {Slice(padded, (n - 1) * block_size, n * block_size) :
            n \in 1..(Len(padded) \div block_size)}

\* C15: every new_super_blocks entry lists S/B block ids (the aligned
\* buffer is padded to a multiple of S before it is chunked), and a
\* savestate whose aligned buffer is all zero has a super_sequence of id 0
\* only, with no new blocks and no new super-blocks.
C15_SuperBlocksAreWhole ==
    \A k \in DOMAIN incremental_saves :
        /\ \A e \in DOMAIN incremental_saves[k].new_super_blocks :
              Len(incremental_saves[k].new_super_blocks[e][2]) * block_size = super_block_size
        /\ AlignedOf(xs[k]) = Zeros(Len(AlignedOf(xs[k]))) =>
              /\ \A i \in DOMAIN incremental_saves[k].super_sequence :
                    incremental_saves[k].super_sequence[i] = 0
              /\ incremental_saves[k].new_blocks = <<>>
              /\ incremental_saves[k].new_super_blocks = <<>>

\* C17: the values of new_blocks of frame k are the distinct blocks of
\* savestate k's padded aligned buffer that are not all zero and are no
\* block of an earlier savestate.
C17_NewBlocksAreFirstSeen ==
    pc = "encode" => \A k \in DOMAIN incremental_saves :
        /\ ValuesOf(incremental_saves[k].new_blocks)
              = BlocksOf(xs[k]) \ ({Zeros(block_size)}
                                   \cup UNION {BlocksOf(xs[j]) : j \in 1..(k - 1)})
        /\ Cardinality(ValuesOf(incremental_saves[k].new_blocks))
              = Len(incremental_saves[k].new_blocks)

\* A savestate that differs from its predecessor introduces exactly one
\* new block and one new super-block.
C17_Witness ==
    /\ Len(incremental_saves) >= 2
    /\ incremental_saves[1].new_blocks # <<>>
    /\ Len(incremental_saves[2].new_blocks) = 1
    /\ Len(incremental_saves[2].new_super_blocks) = 1

---------------------------------------------------------------------------
(* Properties of decode and decode_one (Spec).  dec.files are the          *)
(* savestates decode has rebuilt so far, decoded what its caller has.      *)

\* C14 as stated: decode yields lazily, so its caller has the i-th
\* savestate as soon as frame i has been processed, before the next frame.
C14_DecodeYieldsLazily ==
    pc = "decode" => decoded = dec.files

\* C14: decode processes the frames in order and hands over nothing until
\* the last frame is done; it then returns all the savestates at once, as
\* a list in frame order, and a failure on any frame hands over none.
C14_DecodeReturnsListAtEnd ==
    /\ pc \in {"decode", "decode_error"} => decoded = <<>>
    /\ pc = "decoded" => (decoded = dec.files /\ Len(decoded) = decode_len(savestream))

C14_Witness ==
    /\ pc = "decode"
    /\ Len(dec.files) >= 1
    /\ Len(dec.files) < decode_len(savestream)
    /\ decoded = <<>>

\* C16: decode writes the info block with compact separators: it is the
\* original info text when that text is the compact form of its object,
\* and the length L in the header of every decoded savestate is the length
\* of the info block written.
C16_InfoIsCompact ==
    (pc \in {"decode", "decoded"} /\ ret.op = "none" /\ dec.files # <<>>) =>
        LET k == Len(dec.files)
            original == _split_v86_savestate(xs[k]).info
        IN  /\ original = CompactDumps(JsonLoads(original).v) => dec.info_block = original
            /\ Int32At(dec.files[k], 13) = Len(dec.info_block)

\* C18: the block size decode derives from the first stored new block and
\* the super-block size it derives from the first stored new super-block
\* are the B and S encode used, so that the reserved ids 0 expand to B and
\* to S NUL bytes.
C18_DerivedSizes ==
    (pc \in {"decode", "decoded", "decode_error"} /\ ret.op = "none") =>
        /\ (\E k \in DOMAIN incremental_saves : incremental_saves[k].new_blocks # <<>>)
              => dec.block_size = block_size
        /\ (\E k \in DOMAIN incremental_saves : incremental_saves[k].new_super_blocks # <<>>)
              => dec.super_block_size = super_block_size

=============================================================================
